---- MODULE Spec2Model ----
(***************************************************************************)
(* Model of src/object/stream.rs: the generic Stream<T> container (filter  *)
(* chain construction, decode, canonical data access) and the ObjectStream *)
(* built on it (eager decode, offset table, slice extraction).             *)
(*                                                                         *)
(* A call has one of three outcomes: "ok" (Ok(..) returned), "err"         *)
(* (Err(..) returned) or "panic" (panic!/assert_eq!/slice index failure:   *)
(* the thread unwinds and nothing more runs in the behaviour).             *)
(***************************************************************************)
EXTENDS Integers, Sequences, FiniteSets, TLC

\* ------------------------------------------------------------------ bounds
MaxLen == 3        \* longest raw byte buffer of a plain stream input
MaxChain == 2      \* longest /Filter array and /DecodeParms array of an input
MaxCalls == 3      \* decode() calls per behaviour
MaxTokens == 4     \* tokens in the payload of an object stream input
MaxBody == 2       \* object bytes following the tokens
MaxIndex == 3      \* largest index passed to get_object_slice
UsizeBits == 6     \* width of usize in the model (64 in the build)

UsizeMod == 2 ^ UsizeBits

\* ------------------------------------------------------------------- bytes
Byte == {"A", " ", "0", "2"}
Digits == {"0", "2"}
Whitespace == {" "}

\* ------------------------------------------------------------ error values
Err(kind, key, index, max) ==
    [kind |-> kind, key |-> key, index |-> index, max |-> max]

NoErr == Err("none", "", 0, 0)

\* -------------------------------------------------------- primitive values
\* Primitive: tagged union; every variant carries all fields so that values
\* of different variants stay comparable.
PNull == [tag |-> "Null", int |-> 0, names |-> <<>>, dicts |-> <<>>]
PInt(n) == [tag |-> "Integer", int |-> n, names |-> <<>>, dicts |-> <<>>]
PName(s) == [tag |-> "Name", int |-> 0, names |-> <<s>>, dicts |-> <<>>]
PNames(ss) == [tag |-> "Array", int |-> 0, names |-> ss, dicts |-> <<>>]
PDict(d) == [tag |-> "Dictionary", int |-> 0, names |-> <<>>, dicts |-> <<d>>]
PDicts(ds) == [tag |-> "Array", int |-> 0, names |-> <<>>, dicts |-> ds]

\* A parameter dictionary is a set of <<key, value>> pairs.
EmptyDict == {}
Parms1 == {<<"Predictor", 2>>}
Parms2 == {<<"Columns", 2>>}

\* Dictionary::remove(key): the entry (as a 0/1-element sequence) and the
\* dictionary without it.
DictGet(dict, key) == IF key \in DOMAIN dict THEN <<dict[key]>> ELSE <<>>

DictRemove(dict, key) == [k \in (DOMAIN dict) \ {key} |-> dict[k]]

\* `.or(Some(Primitive::Null)).unwrap()`
OrNull(opt) == IF opt = <<>> THEN PNull ELSE opt[1]

\* usize::from_primitive / i32::from_primitive
IntFromPrimitive(p) ==
    IF p.tag = "Integer"
    THEN [ok |-> TRUE, err |-> NoErr, int |-> p.int]
    ELSE [ok |-> FALSE, err |-> Err("UnexpectedPrimitive", "Integer", 0, 0), int |-> 0]

\* Vec::<String>::from_primitive: Null is the empty vector, an array its
\* elements, a single name a one-element vector.
VecStringFromPrimitive(p) ==
    CASE p.tag = "Null" -> [ok |-> TRUE, err |-> NoErr, names |-> <<>>]
      [] p.tag = "Array" /\ p.dicts = <<>> -> [ok |-> TRUE, err |-> NoErr, names |-> p.names]
      [] p.tag = "Name" -> [ok |-> TRUE, err |-> NoErr, names |-> p.names]
      [] OTHER -> [ok |-> FALSE, err |-> Err("UnexpectedPrimitive", "Name", 0, 0), names |-> <<>>]

\* Vec::<Dictionary>::from_primitive
VecDictFromPrimitive(p) ==
    CASE p.tag = "Null" -> [ok |-> TRUE, err |-> NoErr, dicts |-> <<>>]
      [] p.tag = "Array" /\ p.names = <<>> -> [ok |-> TRUE, err |-> NoErr, dicts |-> p.dicts]
      [] p.tag = "Dictionary" -> [ok |-> TRUE, err |-> NoErr, dicts |-> p.dicts]
      [] OTHER -> [ok |-> FALSE, err |-> Err("UnexpectedPrimitive", "Dictionary", 0, 0), dicts |-> <<>>]

\* ----------------------------------------------------------------- filters
\* The codecs are an opaque table keyed by filter name.  Two stand-ins:
\* "Strip" removes a one-byte frame marker and fails when it is missing,
\* "Rev" reverses its input and never fails.  They do not commute.
FilterKinds == {"Strip", "Rev"}
FilterNames == FilterKinds \cup {"Bogus"}

\* StreamFilter::from_kind_and_params
FromKindAndParams(kind, params) ==
    IF kind \in FilterKinds
    THEN [ok |-> TRUE, err |-> NoErr, filter |-> [kind |-> kind, params |-> params]]
    ELSE [ok |-> FALSE, err |-> Err("UnknownFilter", kind, 0, 0),
          filter |-> [kind |-> kind, params |-> params]]

RECURSIVE Reverse(_)
Reverse(s) == IF s = <<>> THEN <<>> ELSE Append(Reverse(Tail(s)), Head(s))

\* enc::decode(data, filter)
DecodeFilter(data, filter) ==
    CASE filter.kind = "Strip" ->
           IF data # <<>> /\ Head(data) = "A"
           THEN [ok |-> TRUE, err |-> NoErr, data |-> Tail(data)]
           ELSE [ok |-> FALSE, err |-> Err("DecodeError", "Strip", 0, 0), data |-> <<>>]
      [] OTHER -> [ok |-> TRUE, err |-> NoErr, data |-> Reverse(data)]

\* ------------------------------------------------------------------ Stream
\* ObjStmInfo::from_primitive on what is left of the dictionary.
ObjStmInfoFromPrimitive(dict) ==
    LET n == DictGet(dict, "N")
        first == DictGet(dict, "First")
        none == [num_objects |-> 0, first |-> 0]
    IN  IF n = <<>> THEN [ok |-> FALSE, err |-> Err("EntryNotFound", "N", 0, 0), info |-> none]
        ELSE IF ~IntFromPrimitive(n[1]).ok THEN [ok |-> FALSE, err |-> IntFromPrimitive(n[1]).err, info |-> none]
        ELSE IF first = <<>> THEN [ok |-> FALSE, err |-> Err("EntryNotFound", "First", 0, 0), info |-> none]
        ELSE IF ~IntFromPrimitive(first[1]).ok THEN [ok |-> FALSE, err |-> IntFromPrimitive(first[1]).err, info |-> none]
        ELSE [ok |-> TRUE, err |-> NoErr,
              info |-> [num_objects |-> n[1].int, first |-> first[1].int]]

\* (mutation of BuildFilters: names zipped with parameters, so the chain
\* stops at the shorter of the two)
RECURSIVE BuildFilters_Zip(_, _, _, _)
BuildFilters_Zip(names, parms, i, acc) ==
    IF i > Len(names) \/ i > Len(parms) THEN [ok |-> TRUE, err |-> NoErr, filters |-> acc]
    ELSE LET f == FromKindAndParams(names[i], parms[i])
         IN  IF f.ok THEN BuildFilters_Zip(names, parms, i + 1, Append(acc, f.filter))
             ELSE [ok |-> FALSE, err |-> f.err, filters |-> <<>>]

\* The loop of from_primitive that pairs filter names with parameters.
RECURSIVE BuildFilters(_, _, _, _)
BuildFilters(names, parms, i, acc) ==
    IF i > Len(names) THEN [ok |-> TRUE, err |-> NoErr, filters |-> acc]
    ELSE LET params == IF i <= Len(parms) THEN parms[i] ELSE EmptyDict
             f == FromKindAndParams(names[i], params)
         IN  IF f.ok THEN BuildFilters(names, parms, i + 1, Append(acc, f.filter))
             ELSE [ok |-> FALSE, err |-> f.err, filters |-> <<>>]

Outcome(kind, err, stream) == [kind |-> kind, err |-> err, stream |-> stream]

KeysRemoved == {"Length", "Filter", "DecodeParms", "F", "FFilter", "FDecodeParms"}

RECURSIVE RemoveAll(_, _)
RemoveAll(dict, keys) ==
    IF keys = {} THEN dict
    ELSE LET k == CHOOSE x \in keys : TRUE
         IN  RemoveAll(DictRemove(dict, k), keys \ {k})

\* Stream::<ObjStmInfo>::from_primitive, on the {dictionary, raw bytes} pair
\* that PdfStream::from_primitive delivers.
StreamFromPrimitive(p) ==
    LET dict == p.dict
        lenE == DictGet(dict, "Length")
        filtE == DictGet(dict, "Filter")
    IN
    IF lenE = <<>> THEN Outcome("err", Err("EntryNotFound", "Length", 0, 0), <<>>)
    ELSE IF ~IntFromPrimitive(lenE[1]).ok THEN Outcome("err", IntFromPrimitive(lenE[1]).err, <<>>)
    ELSE IF lenE[1].int # Len(p.data) THEN Outcome("panic", NoErr, <<>>)
    ELSE IF filtE = <<>> THEN Outcome("err", Err("EntryNotFound", "Filter", 0, 0), <<>>)
    ELSE
    LET filters == VecStringFromPrimitive(filtE[1])
        parms == VecDictFromPrimitive(OrNull(DictGet(dict, "DecodeParms")))
        ffilters == VecStringFromPrimitive(OrNull(DictGet(dict, "FFilter")))
        fparms == VecDictFromPrimitive(OrNull(DictGet(dict, "FDecodeParms")))
    IN
    IF ~filters.ok THEN Outcome("err", filters.err, <<>>)
    ELSE IF ~parms.ok THEN Outcome("err", parms.err, <<>>)
    ELSE IF ~ffilters.ok THEN Outcome("err", ffilters.err, <<>>)
    ELSE IF ~fparms.ok THEN Outcome("err", fparms.err, <<>>)
    ELSE
    LET new_filters == BuildFilters(filters.names, parms.dicts, 1, <<>>)
        new_file_filters == BuildFilters(ffilters.names, fparms.dicts, 1, <<>>)
        info == ObjStmInfoFromPrimitive(RemoveAll(dict, KeysRemoved))
    IN
    IF ~new_filters.ok THEN Outcome("err", new_filters.err, <<>>)
    ELSE IF ~new_file_filters.ok THEN Outcome("err", new_file_filters.err, <<>>)
    ELSE IF ~info.ok THEN Outcome("err", info.err, <<>>)
    ELSE Outcome("ok", NoErr,
                 << [filters |-> new_filters.filters,
                     file_filters |-> new_file_filters.filters,
                     info |-> info.info,
                     data |-> p.data] >>)

\* The loop of Stream::decode: `self.data` is assigned after every filter
\* that succeeds; the first failure returns with what was assigned so far.
RECURSIVE DecodeLoop(_, _, _)
DecodeLoop(data, filters, i) ==
    IF i > Len(filters) THEN [ok |-> TRUE, err |-> NoErr, data |-> data]
    ELSE LET d == DecodeFilter(data, filters[i])
         IN  IF d.ok THEN DecodeLoop(d.data, filters, i + 1)
             ELSE [ok |-> FALSE, err |-> d.err, data |-> data]

\* (mutation of StreamDecode: `self.filters.clear()` left out)
StreamDecode_KeepFilters(s) ==
    LET r == DecodeLoop(s.data, s.filters, 1)
    IN  IF r.ok
        THEN Outcome("ok", NoErr, << [s EXCEPT !.data = r.data] >>)
        ELSE Outcome("err", r.err, << [s EXCEPT !.data = r.data] >>)

\* Stream::decode: the outcome and the stream it leaves.
StreamDecode(s) ==
    LET r == DecodeLoop(s.data, s.filters, 1)
    IN  IF r.ok
        THEN Outcome("ok", NoErr, << [s EXCEPT !.data = r.data, !.filters = <<>>] >>)
        ELSE Outcome("err", r.err, << [s EXCEPT !.data = r.data] >>)

\* (mutation of StreamGetData: the filter check left out)
StreamGetData_NoCheck(s) == [kind |-> "ok", err |-> NoErr, val |-> s.data]

\* Stream::get_data
StreamGetData(s) ==
    IF Len(s.filters) > 0
    THEN [kind |-> "panic", err |-> NoErr, val |-> <<>>]
    ELSE [kind |-> "ok", err |-> NoErr, val |-> s.data]

\* Stream::get_data_raw
StreamGetDataRaw(s) == [kind |-> "ok", err |-> NoErr, val |-> s.data]

\* Stream::get_length
StreamGetLength(s) == Len(s.data)

\* ------------------------------------------------------------------- state
VARIABLES
    prim,      \* the {dictionary, raw bytes} pair the behaviour constructs from
    stream,    \* the Stream<ObjStmInfo> owned by the caller: <<>> or <<s>>
    ostm,      \* the ObjectStream owned by the caller: <<>> or <<o>>
    result,    \* what the last call returned
    pre,       \* `stream` as it was when the last call began
    orig,      \* `stream` as from_primitive returned it
    calls,     \* decode() calls made so far
    failed,    \* TRUE once a decode() call has returned an error
    crashed    \* TRUE once a call has panicked

vars == <<prim, stream, ostm, result, pre, orig, calls, failed, crashed>>

Res(op, kind, err, val, num, index, range) ==
    [op |-> op, kind |-> kind, err |-> err, val |-> val, num |-> num,
     index |-> index, range |-> range]

NoRes == Res("none", "ok", NoErr, <<>>, 0, 0, <<0, 0>>)

\* ------------------------------------------------------------------ inputs
RECURSIVE SeqsOfLen(_, _)
SeqsOfLen(S, n) ==
    IF n = 0 THEN {<<>>}
    ELSE {Append(s, x) : s \in SeqsOfLen(S, n - 1), x \in S}

SeqsUpTo(S, n) == UNION {SeqsOfLen(S, k) : k \in 0..n}

\* entries: key -> 0/1-element sequence of primitives
MkDict(entries) ==
    [k \in {x \in DOMAIN entries : entries[x] # <<>>} |-> entries[k][1]]

LengthEntries(data) ==
    {<<>>, <<PInt(Len(data))>>, <<PInt(Len(data) + 1)>>, <<PName("A")>>}

FilterEntries ==
    {<<>>} \cup {<<PName(n)>> : n \in FilterNames}
           \cup {<<PNames(ns)>> : ns \in SeqsUpTo(FilterNames, MaxChain)}

DecodeParmsEntries ==
    {<<>>, <<PDict(Parms1)>>}
        \cup {<<PDicts(ds)>> : ds \in SeqsUpTo({Parms1, Parms2}, MaxChain)}

FFilterEntries == {<<>>, <<PName("Rev")>>, <<PNames(<<"Bogus">>)>>}

StreamInit ==
    /\ \E data \in SeqsUpTo({"A", "0"}, MaxLen) :
       \E l \in LengthEntries(data), f \in FilterEntries,
          dp \in DecodeParmsEntries, ff \in FFilterEntries,
          n \in {<<>>, <<PInt(1)>>} :
          prim = [dict |-> MkDict([Length |-> l, Filter |-> f, DecodeParms |-> dp,
                                   FFilter |-> ff, N |-> n, First |-> <<PInt(0)>>]),
                  data |-> data]
    /\ stream = <<>>
    /\ ostm = <<>>
    /\ result = NoRes
    /\ pre = <<>>
    /\ orig = <<>>
    /\ calls = 0
    /\ failed = FALSE
    /\ crashed = FALSE

\* ------------------------------------------------------- Stream operations
\* let stream = Stream::<ObjStmInfo>::from_primitive(p, resolve)
NewStream ==
    /\ result.op = "none"
    /\ LET r == StreamFromPrimitive(prim)
       IN  /\ stream' = r.stream
           /\ orig' = r.stream
           /\ result' = Res("from_primitive", r.kind, r.err, <<>>, 0, 0, <<0, 0>>)
           /\ crashed' = (r.kind = "panic")
    /\ pre' = stream
    /\ UNCHANGED <<prim, ostm, calls, failed>>

\* stream.decode()
Decode ==
    /\ ~crashed
    /\ stream # <<>>
    /\ calls < MaxCalls
    /\ LET r == StreamDecode(stream[1])
       IN  /\ stream' = r.stream
           /\ result' = Res("decode", r.kind, r.err, <<>>, 0, 0, <<0, 0>>)
           /\ failed' = (failed \/ r.kind = "err")
    /\ pre' = stream
    /\ calls' = calls + 1
    /\ UNCHANGED <<prim, ostm, orig, crashed>>

\* stream.get_data()
GetData ==
    /\ ~crashed
    /\ stream # <<>>
    /\ LET r == StreamGetData(stream[1])
       IN  /\ result' = Res("get_data", r.kind, r.err, r.val, 0, 0, <<0, 0>>)
           /\ crashed' = (r.kind = "panic")
    /\ pre' = stream
    /\ UNCHANGED <<prim, stream, ostm, orig, calls, failed>>

\* stream.get_data_raw()
GetDataRaw ==
    /\ ~crashed
    /\ stream # <<>>
    /\ LET r == StreamGetDataRaw(stream[1])
       IN  result' = Res("get_data_raw", r.kind, r.err, r.val, 0, 0, <<0, 0>>)
    /\ pre' = stream
    /\ UNCHANGED <<prim, stream, ostm, orig, calls, failed, crashed>>

\* stream.get_length()
GetLength ==
    /\ ~crashed
    /\ stream # <<>>
    /\ result' = Res("get_length", "ok", NoErr, <<>>, StreamGetLength(stream[1]), 0, <<0, 0>>)
    /\ pre' = stream
    /\ UNCHANGED <<prim, stream, ostm, orig, calls, failed, crashed>>

Next ==
    \/ NewStream
    \/ Decode
    \/ GetData
    \/ GetDataRaw
    \/ GetLength

Spec == StreamInit /\ [][Next]_vars

\* ------------------------------------------------------------------- Lexer
\* Lexer::new(data) and every lexer.next(): the tokens of `data`, maximal
\* runs of non-whitespace bytes.  `cur` is the token being collected.
RECURSIVE Tokenize(_, _, _)
Tokenize(data, cur, acc) ==
    IF data = <<>> THEN (IF cur = <<>> THEN acc ELSE Append(acc, cur))
    ELSE IF Head(data) \in Whitespace
         THEN Tokenize(Tail(data), <<>>, IF cur = <<>> THEN acc ELSE Append(acc, cur))
         ELSE Tokenize(Tail(data), Append(cur, Head(data)), acc)

DigitValue(b) == IF b = "2" THEN 2 ELSE 0

RECURSIVE Decimal(_, _)
Decimal(tok, acc) ==
    IF tok = <<>> THEN acc ELSE Decimal(Tail(tok), 10 * acc + DigitValue(Head(tok)))

\* Substr::to::<usize>() and to::<ObjNr>(): a decimal integer that fits.
ToUsize(tok) ==
    IF tok # <<>> /\ (\A i \in 1..Len(tok) : tok[i] \in Digits) /\ Decimal(tok, 0) < UsizeMod
    THEN [ok |-> TRUE, err |-> NoErr, int |-> Decimal(tok, 0)]
    ELSE [ok |-> FALSE, err |-> Err("ParseError", "Integer", 0, 0), int |-> 0]

\* `x as usize` / `x as ObjNr` of an i32: sign extension, then truncation.
AsUsize(x) == x % UsizeMod

\* ------------------------------------------------------------ ObjectStream
\* (mutation of ReadOffsets: the loop ends quietly when the lexer runs dry
\* or meets a token that is no integer)
RECURSIVE ReadOffsets_Truncating(_, _, _, _)
ReadOffsets_Truncating(tokens, count, pos, offsets) ==
    IF count = 0 \/ pos + 1 > Len(tokens) THEN [ok |-> TRUE, err |-> NoErr, offsets |-> offsets]
    ELSE IF ~ToUsize(tokens[pos]).ok \/ ~ToUsize(tokens[pos + 1]).ok
         THEN [ok |-> TRUE, err |-> NoErr, offsets |-> offsets]
    ELSE ReadOffsets_Truncating(tokens, count - 1, pos + 2,
                                Append(offsets, ToUsize(tokens[pos + 1]).int))

\* The loop `for _ in 0..(num_objects as ObjNr)` over the lexer: `pos` is
\* the next token, `count` the iterations left.
RECURSIVE ReadOffsets(_, _, _, _)
ReadOffsets(tokens, count, pos, offsets) ==
    IF count = 0 THEN [ok |-> TRUE, err |-> NoErr, offsets |-> offsets]
    ELSE IF pos > Len(tokens) THEN [ok |-> FALSE, err |-> Err("EOF", "", 0, 0), offsets |-> <<>>]
    ELSE IF ~ToUsize(tokens[pos]).ok THEN [ok |-> FALSE, err |-> ToUsize(tokens[pos]).err, offsets |-> <<>>]
    ELSE IF pos + 1 > Len(tokens) THEN [ok |-> FALSE, err |-> Err("EOF", "", 0, 0), offsets |-> <<>>]
    ELSE IF ~ToUsize(tokens[pos + 1]).ok THEN [ok |-> FALSE, err |-> ToUsize(tokens[pos + 1]).err, offsets |-> <<>>]
    ELSE ReadOffsets(tokens, count - 1, pos + 2, Append(offsets, ToUsize(tokens[pos + 1]).int))

ObjOutcome(kind, err, o) == [kind |-> kind, err |-> err, ostm |-> o]

\* ObjectStream::from_primitive
ObjectStreamFromPrimitive(p) ==
    LET r == StreamFromPrimitive(p)
    IN
    IF r.kind # "ok" THEN ObjOutcome(r.kind, r.err, <<>>)
    ELSE
    LET decoded == StreamDecode(r.stream[1]).stream[1]   \* `stream.decode();`
        got == StreamGetData(decoded)
    IN
    IF got.kind = "panic" THEN ObjOutcome("panic", NoErr, <<>>)
    ELSE
    LET read == ReadOffsets(Tokenize(got.val, <<>>, <<>>),
                            AsUsize(decoded.info.num_objects), 1, <<>>)
    IN
    IF ~read.ok THEN ObjOutcome("err", read.err, <<>>)
    ELSE ObjOutcome("ok", NoErr, << [stream |-> decoded, offsets |-> read.offsets, id |-> 0] >>)

\* usize addition: a sum that does not fit panics when the build checks
\* overflow (debug) and wraps when it does not (release).
AddUsize(a, b, overflow_checks) ==
    IF a + b < UsizeMod THEN [ok |-> TRUE, int |-> a + b]
    ELSE IF overflow_checks THEN [ok |-> FALSE, int |-> 0]
    ELSE [ok |-> TRUE, int |-> (a + b) % UsizeMod]

\* (mutation of Slice: the range is not checked against the buffer)
Slice_Unchecked(data, start, end) ==
    [kind |-> "ok",
     val |-> IF start <= end /\ end <= Len(data) THEN SubSeq(data, start + 1, end) ELSE <<>>]

\* &data[start..end]
Slice(data, start, end) ==
    IF start > end \/ end > Len(data)
    THEN [kind |-> "panic", val |-> <<>>]
    ELSE [kind |-> "ok", val |-> SubSeq(data, start + 1, end)]

SliceRes(kind, err, val, range) == [kind |-> kind, err |-> err, val |-> val, range |-> range]

\* (mutation of GetObjectSliceOf: every object is taken to run to the end of
\* the buffer)
GetObjectSliceOf_ToEnd(o, index, overflow_checks) ==
    IF index >= Len(o.offsets)
    THEN SliceRes("err", Err("ObjStmOutOfBounds", "", index, Len(o.offsets)), <<>>, <<0, 0>>)
    ELSE
    LET start == AddUsize(AsUsize(o.stream.info.first), o.offsets[index + 1], overflow_checks)
    IN
    IF ~start.ok THEN SliceRes("panic", NoErr, <<>>, <<0, 0>>)
    ELSE LET sl == Slice(o.stream.data, start.int, Len(o.stream.data))
         IN  SliceRes(sl.kind, NoErr, sl.val, <<start.int, Len(o.stream.data)>>)

\* ObjectStream::get_object_slice
GetObjectSliceOf(o, index, overflow_checks) ==
    IF index >= Len(o.offsets)
    THEN SliceRes("err", Err("ObjStmOutOfBounds", "", index, Len(o.offsets)), <<>>, <<0, 0>>)
    ELSE
    LET start == AddUsize(AsUsize(o.stream.info.first), o.offsets[index + 1], overflow_checks)
        end == IF index = Len(o.offsets) - 1
               THEN [ok |-> TRUE, int |-> Len(o.stream.data)]
               ELSE AddUsize(AsUsize(o.stream.info.first), o.offsets[index + 2], overflow_checks)
    IN
    IF ~start.ok \/ ~end.ok THEN SliceRes("panic", NoErr, <<>>, <<0, 0>>)
    ELSE LET sl == Slice(o.stream.data, start.int, end.int)
         IN  SliceRes(sl.kind, NoErr, sl.val, <<start.int, end.int>>)

\* ObjectStream::n_objects
NObjectsOf(o) == Len(o.offsets)

\* ------------------------------------------------- object stream inputs
RECURSIVE Join(_)
Join(tokens) ==
    IF tokens = <<>> THEN <<>>
    ELSE IF Len(tokens) = 1 THEN tokens[1]
    ELSE tokens[1] \o <<" ">> \o Join(Tail(tokens))

BodyPattern == <<"A", "0", "2", "A", "0", "2">>

Payloads ==
    {Join(ts) \o (IF k = 0 THEN <<>> ELSE <<" ">> \o SubSeq(BodyPattern, 1, k)) :
        ts \in SeqsUpTo({<<"0">>, <<"2">>, <<"A">>}, MaxTokens), k \in 0..MaxBody}

ObjChains == {<<>>, <<"Strip">>, <<"Rev", "Strip">>}

ObjInit ==
    /\ \E payload \in Payloads,
          f \in {<<>>} \cup {<<PNames(ns)>> : ns \in ObjChains},
          n \in {-1, 0, 1, 2, 3}, first \in {-1, 0, 4} :
          prim = [dict |-> MkDict([Length |-> <<PInt(Len(payload))>>,
                                   Filter |-> f,
                                   N |-> <<PInt(n)>>, First |-> <<PInt(first)>>]),
                  data |-> payload]
    /\ stream = <<>>
    /\ ostm = <<>>
    /\ result = NoRes
    /\ pre = <<>>
    /\ orig = <<>>
    /\ calls = 0
    /\ failed = FALSE
    /\ crashed = FALSE

\* ------------------------------------------------ ObjectStream operations
\* let ostm = ObjectStream::from_primitive(p, resolve)
NewObjectStream ==
    /\ result.op = "none"
    /\ LET r == ObjectStreamFromPrimitive(prim)
       IN  /\ ostm' = r.ostm
           /\ result' = Res("objstm_from_primitive", r.kind, r.err, <<>>, 0, 0, <<0, 0>>)
           /\ crashed' = (r.kind = "panic")
    /\ UNCHANGED <<prim, stream, pre, orig, calls, failed>>

\* ostm.get_object_slice(index)
GetObjectSlice ==
    /\ ~crashed
    /\ ostm # <<>>
    /\ \E index \in 0..MaxIndex, overflow_checks \in BOOLEAN :
         LET r == GetObjectSliceOf(ostm[1], index, overflow_checks)
         IN  /\ result' = Res("get_object_slice", r.kind, r.err, r.val, 0, index, r.range)
             /\ crashed' = (r.kind = "panic")
    /\ UNCHANGED <<prim, stream, ostm, pre, orig, calls, failed>>

\* ostm.n_objects()
NObjects ==
    /\ ~crashed
    /\ ostm # <<>>
    /\ result' = Res("n_objects", "ok", NoErr, <<>>, NObjectsOf(ostm[1]), 0, <<0, 0>>)
    /\ UNCHANGED <<prim, stream, ostm, pre, orig, calls, failed, crashed>>

ObjNext ==
    \/ NewObjectStream
    \/ GetObjectSlice
    \/ NObjects

ObjSpec == ObjInit /\ [][ObjNext]_vars

\* =================================================================== claims
\* What the input declares, read off the dictionary.
DeclaredLength == prim.dict["Length"].int

DeclaredNames == prim.dict["Filter"].names

DeclaredParms ==
    IF "DecodeParms" \in DOMAIN prim.dict THEN prim.dict["DecodeParms"].dicts ELSE <<>>

HasIntegerLength ==
    "Length" \in DOMAIN prim.dict /\ prim.dict["Length"].tag = "Integer"

\* The chain composed over the bytes, first filter innermost.
RECURSIVE ApplyChain(_, _)
ApplyChain(filters, data) ==
    IF filters = <<>> THEN data
    ELSE ApplyChain(Tail(filters), DecodeFilter(data, Head(filters)).data)

\* C1: a decode() call that fails leaves the stream's data and filter chain
\* as they were before the call, wherever in the chain the failure is.
C1_FailedDecodeChangesNothing ==
    (result.op = "decode" /\ result.kind = "err") =>
        /\ result.err.kind = "DecodeError"
        /\ stream[1].filters = pre[1].filters
        /\ stream[1].data = pre[1].data

\* C2 (as stated): get_data() succeeds exactly when the filter chain is empty;
\* with a non-empty chain it returns a NotDecoded error, without crashing, and
\* the stream is unchanged.
C2_GetDataReturnsNotDecoded ==
    result.op = "get_data" =>
        /\ (result.kind = "ok") <=> (pre[1].filters = <<>>)
        /\ pre[1].filters # <<>> =>
              (result.kind = "err" /\ result.err.kind = "NotDecoded" /\ ~crashed)
        /\ stream = pre

\* C2 (amended): get_data() succeeds, returning the data, exactly when the
\* filter chain is empty; with a non-empty chain it panics, and no error value
\* is returned; the call does not change the stream.
C2_GetDataPanicsWhenEncoded ==
    result.op = "get_data" =>
        /\ (result.kind = "ok") <=> (pre[1].filters = <<>>)
        /\ result.kind = "ok" => result.val = pre[1].data
        /\ pre[1].filters # <<>> => (result.kind = "panic" /\ crashed)
        /\ stream = pre

C2_Witness ==
    /\ result.op = "get_data"
    /\ result.kind = "panic"
    /\ Len(stream[1].filters) = 2
    /\ calls = 0

\* C3: from_primitive returns a LengthMismatch error, and no Stream, whenever
\* the declared Length differs from the number of raw bytes; when it succeeds
\* the data length equals the declared Length.
C3_LengthMismatchIsAnError ==
    (result.op = "from_primitive" /\ HasIntegerLength) =>
        /\ DeclaredLength # Len(prim.data) =>
              /\ result.kind = "err"
              /\ result.err.kind = "LengthMismatch"
              /\ stream = <<>>
              /\ ~crashed
        /\ result.kind = "ok" => Len(stream[1].data) = DeclaredLength

\* C4: while every decode() call so far has succeeded, the chain has been
\* applied exactly once, in declared order: from the first call on the filter
\* chain is empty, the data is the chain composed over the raw bytes, info is
\* untouched and get_data() succeeds; a decode() call on an empty chain
\* returns success and changes nothing.
C4_DecodeAppliesChainOnce ==
    /\ (stream # <<>> /\ calls >= 1 /\ ~failed) =>
          /\ stream[1].filters = <<>>
          /\ stream[1].data = ApplyChain(orig[1].filters, orig[1].data)
          /\ stream[1].info = orig[1].info
          /\ result.op = "get_data" => (result.kind = "ok" /\ result.val = stream[1].data)
          /\ result.op = "get_length" => result.num = Len(stream[1].data)
    /\ (result.op = "decode" /\ pre[1].filters = <<>>) =>
          (result.kind = "ok" /\ stream = pre)

C4_Witness ==
    /\ result.op = "decode"
    /\ calls = 2
    /\ ~failed
    /\ orig[1].filters = << [kind |-> "Rev", params |-> EmptyDict],
                            [kind |-> "Strip", params |-> EmptyDict] >>
    /\ orig[1].data = <<"0", "0", "A">>
    /\ stream[1].data = <<"0", "0">>

\* C5: from_primitive on a dictionary without Length fails with
\* EntryNotFound("Length"); on one with Length but without Filter it fails
\* with EntryNotFound("Filter"), whatever the other keys and the raw bytes;
\* no Stream is constructed.
C5_MissingKeyIsReported ==
    result.op = "from_primitive" =>
        /\ "Length" \notin DOMAIN prim.dict =>
              /\ result.kind = "err"
              /\ result.err = Err("EntryNotFound", "Length", 0, 0)
              /\ stream = <<>>
        /\ (HasIntegerLength /\ "Filter" \notin DOMAIN prim.dict) =>
              /\ result.kind = "err"
              /\ result.err = Err("EntryNotFound", "Filter", 0, 0)
              /\ stream = <<>>

\* C8: a Stream that from_primitive returns has one descriptor per declared
\* filter name, in declared order; descriptor i has name i and DecodeParms
\* entry i, or the empty mapping when DecodeParms has no entry i; surplus
\* DecodeParms entries add nothing.
C8_FilterChainIsIndexAligned ==
    (result.op = "from_primitive" /\ result.kind = "ok") =>
        /\ Len(stream[1].filters) = Len(DeclaredNames)
        /\ \A i \in 1..Len(DeclaredNames) :
              /\ stream[1].filters[i].kind = DeclaredNames[i]
              /\ stream[1].filters[i].params =
                    (IF i <= Len(DeclaredParms) THEN DeclaredParms[i] ELSE EmptyDict)

C8_Witness ==
    /\ result.op = "from_primitive"
    /\ result.kind = "ok"
    /\ DeclaredNames = <<"Strip", "Rev">>
    /\ DeclaredParms = <<Parms2>>
    /\ stream[1].filters = << [kind |-> "Strip", params |-> Parms2],
                              [kind |-> "Rev", params |-> EmptyDict] >>

\* ---------------------------------------------------- object stream claims
IsInteger(tok) ==
    /\ tok # <<>>
    /\ \A i \in 1..Len(tok) : tok[i] \in Digits
    /\ Decimal(tok, 0) < UsizeMod

\* How many (object_number, offset) pairs of integers the tokens start with.
RECURSIVE ValidPairs(_)
ValidPairs(tokens) ==
    IF Len(tokens) >= 2 /\ IsInteger(tokens[1]) /\ IsInteger(tokens[2])
    THEN 1 + ValidPairs(Tail(Tail(tokens)))
    ELSE 0

\* The stream the construction builds and what its eager decode returns.
BuiltStream == StreamFromPrimitive(prim)

EagerDecode == StreamDecode(BuiltStream.stream[1])

DeclaredN == prim.dict["N"].int

DeclaredFirst == prim.dict["First"].int

\* C6 (as stated): get_object_slice(index) fails with the out-of-bounds error
\* carrying index and count exactly when index >= n_objects(); otherwise it
\* returns data[start..end], start = first + offsets[index], end = data.len()
\* for the last entry and first + offsets[index + 1] for the others.
C6_SliceReturnedForEveryIndexInRange ==
    result.op = "get_object_slice" =>
        LET o == ostm[1]
            n == Len(o.offsets)
            i == result.index
        IN  /\ i >= n => (result.kind = "err" /\ result.err = Err("ObjStmOutOfBounds", "", i, n))
            /\ i < n =>
                  /\ result.kind = "ok"
                  /\ result.range[1] = o.stream.info.first + o.offsets[i + 1]
                  /\ result.range[2] = (IF i = n - 1 THEN Len(o.stream.data)
                                        ELSE o.stream.info.first + o.offsets[i + 2])
                  /\ result.val = SubSeq(o.stream.data, result.range[1] + 1, result.range[2])

\* C6 (amended): get_object_slice(index) fails with the out-of-bounds error
\* carrying index and count exactly when index >= n_objects(); for a smaller
\* index it returns data[start..end] (start and end as stated, in usize
\* arithmetic) whenever First >= 0 and start <= end <= data.len(), and
\* otherwise it panics rather than return, except that a build without
\* overflow checks returns the wrapped range when that lies within data; the
\* call changes neither data, offsets nor info.
C6_SliceOrPanic ==
    [][result'.op = "get_object_slice" =>
        LET o == ostm[1]
            n == Len(o.offsets)
            i == result'.index
            first == o.stream.info.first
            len == Len(o.stream.data)
            start == first + o.offsets[i + 1]
            end == IF i = n - 1 THEN len ELSE first + o.offsets[i + 2]
            wstart == start % UsizeMod
            wend == end % UsizeMod
        IN  /\ ostm' = ostm
            /\ (i >= n) <=> (result'.kind = "err")
            /\ i >= n => result'.err = Err("ObjStmOutOfBounds", "", i, n)
            /\ i < n =>
                  /\ result'.kind \in {"ok", "panic"}
                  /\ (first >= 0 /\ start <= end /\ end <= len) => result'.kind = "ok"
                  /\ result'.kind = "ok" =>
                        /\ wstart <= wend /\ wend <= len
                        /\ result'.range = <<wstart, wend>>
                        /\ result'.val = SubSeq(o.stream.data, wstart + 1, wend)
    ]_vars

C6_Witness ==
    /\ result.op = "get_object_slice"
    /\ result.kind = "ok"
    /\ result.index = 0
    /\ ostm[1].offsets = <<0, 2>>
    /\ ostm[1].stream.info.first = 4
    /\ result.range = <<4, 6>>
    /\ result.val = <<"0", " ">>

\* C7: an ObjectStream that from_primitive returns has exactly num_objects
\* offsets, the second integers of the first num_objects pairs of the payload
\* in the order read, and n_objects() equals info.num_objects; when the
\* canonical payload starts with fewer than num_objects pairs of integers the
\* construction fails with a parse error and returns no ObjectStream.
C7_OffsetTableIsComplete ==
    /\ (result.op = "objstm_from_primitive" /\ result.kind = "ok") =>
          LET o == ostm[1]
              tokens == Tokenize(o.stream.data, <<>>, <<>>)
          IN  /\ Len(o.offsets) = o.stream.info.num_objects
              /\ o.stream.info.num_objects = DeclaredN
              /\ \A k \in 1..Len(o.offsets) : o.offsets[k] = Decimal(tokens[2 * k], 0)
    /\ result.op = "n_objects" => result.num = ostm[1].stream.info.num_objects
    /\ (/\ result.op = "objstm_from_primitive"
        /\ BuiltStream.kind = "ok"
        /\ EagerDecode.kind = "ok"
        /\ ValidPairs(Tokenize(EagerDecode.stream[1].data, <<>>, <<>>)) < DeclaredN) =>
          /\ result.kind = "err"
          /\ result.err.kind \in {"EOF", "ParseError"}
          /\ ostm = <<>>

C7_Witness ==
    /\ result.op = "n_objects"
    /\ result.num = 2
    /\ ostm[1].offsets = <<2, 0>>
    /\ ostm[1].stream.filters = <<>>
    /\ Len(orig) = 0
    /\ Len(DeclaredNames) = 2

\* C9: when the eager decode inside ObjectStream::from_primitive fails, the
\* construction returns that filter's decode error to the caller, and the
\* process does not crash.
C9_EagerDecodeErrorIsReturned ==
    (/\ result.op = "objstm_from_primitive"
     /\ BuiltStream.kind = "ok"
     /\ EagerDecode.kind = "err") =>
        /\ result.kind = "err"
        /\ result.err = EagerDecode.err
        /\ ~crashed

\* C10: for a constructed ObjectStream and index < n_objects(),
\* get_object_slice either returns a range 0 <= start <= end <= data.len() of
\* data, or fails at the extraction (the slice or overflow check panics); it
\* never returns bytes from outside data, whatever First and the offsets are.
C10_SliceStaysInsideData ==
    (result.op = "get_object_slice" /\ result.index < Len(ostm[1].offsets)) =>
        \/ /\ result.kind = "ok"
           /\ 0 <= result.range[1]
           /\ result.range[1] <= result.range[2]
           /\ result.range[2] <= Len(ostm[1].stream.data)
           /\ Len(result.val) = result.range[2] - result.range[1]
           /\ \A k \in 1..Len(result.val) :
                 result.val[k] = ostm[1].stream.data[result.range[1] + k]
        \/ /\ result.kind = "panic"
           /\ result.val = <<>>
           /\ crashed

C10_Witness ==
    /\ result.op = "get_object_slice"
    /\ result.kind = "panic"
    /\ result.index = 0
    /\ ostm[1].offsets = <<2, 0>>
    /\ ostm[1].stream.info.first = 4
    /\ Len(ostm[1].stream.data) >= 6

====
